---- MODULE Spec2Model ----
(***************************************************************************)
(* A model of Vainilla (src/unnamed/part_001): the area pass that counts   *)
(* buildings and farmland, and the road pass that classifies every way of   *)
(* the filtered stream into the running totals printed at the end.          *)
(*                                                                          *)
(* Tag values that the program only compares or tests for presence are      *)
(* TLA+ strings.  Tag values that the program parses, splits or searches    *)
(* (lanes, lanes:*, turn*, ref) are sequences of one-character strings, so  *)
(* that parseInt, split, join, includes and startsWith are computed.        *)
(* A tag mapping is a function whose domain is the set of keys present.     *)
(* Lengths and areas are non-negative integers (whole metres).              *)
(***************************************************************************)
EXTENDS Integers, Sequences, FiniteSets, TLC

VARIABLES
    pc,                            \* "areas", "roads" or "ended"
    feature,                       \* the feature handed to the last handler call
    delivered,                     \* how many features the current pass has delivered
    fed,                           \* the ways whose bridge block has run, in order
    result,                        \* the value returned by the last pure-function call
    buildingCount, buildingCoverArea, farmCount, farmlandArea,
    hallwayLength, footPathLength, stairLength, sidewalkLength,
    bikePathLength, crossingLength,
    roadCount, centerlineLength, onewayCenterlineLength, laneLength,
    publicCenterlineLength, onewayPublicCenterlineLength, publicLaneLength,
    interstateCenterlineLength, interstateLaneLength,
    freewayCenterlineLength, freewayLaneLength,
    alleyLength, drivewayLength, parkingAisleLength, driveThroughLength,
    bikeLaneLength, sharrowLength, turnLaneLength, maximumSpeedLimitLength,
    lengthsByRoadClass, speedLimitLengthsByRoadClass,
    numBridges, bridgeLength, tolledLength,
    bridgeWayIDsByNodeID

areaLedger == <<buildingCount, buildingCoverArea, farmCount, farmlandArea>>

pathLedger == <<hallwayLength, footPathLength, stairLength, sidewalkLength,
                bikePathLength, crossingLength>>

roadLedger == <<roadCount, centerlineLength, onewayCenterlineLength, laneLength,
                publicCenterlineLength, onewayPublicCenterlineLength, publicLaneLength,
                interstateCenterlineLength, interstateLaneLength,
                freewayCenterlineLength, freewayLaneLength,
                alleyLength, drivewayLength, parkingAisleLength, driveThroughLength,
                bikeLaneLength, sharrowLength, turnLaneLength, maximumSpeedLimitLength,
                lengthsByRoadClass, speedLimitLengthsByRoadClass,
                numBridges, bridgeLength, tolledLength, bridgeWayIDsByNodeID>>

vars == <<pc, feature, delivered, fed, result, areaLedger, pathLedger, roadLedger>>

(***************************************************************************)
(* JavaScript numbers that can be NaN: lane counts and lane-length totals.  *)
(***************************************************************************)
NaN == [nan |-> TRUE, val |-> 0]

Num(n) == [nan |-> FALSE, val |-> n]

\* !x for a number x: NaN and 0 are falsy.
Falsy(x) == x.nan \/ x.val = 0

\* a || b
OrElse(a, b) == IF Falsy(a) THEN b ELSE a

\* a + b
Plus(a, b) == IF a.nan \/ b.nan THEN NaN ELSE Num(a.val + b.val)

\* a * b
Times(a, b) == IF a.nan \/ b.nan THEN NaN ELSE Num(a.val * b.val)

\* Math.max(a, b)
MathMax(a, b) ==
    IF a.nan \/ b.nan THEN NaN
    ELSE IF a.val >= b.val THEN a ELSE b

\* Math.floor(a / 2)
FloorHalf(a) == IF a.nan THEN NaN ELSE Num(a.val \div 2)

(***************************************************************************)
(* JavaScript strings as sequences of characters.                           *)
(***************************************************************************)
\* What a lookup of a missing key yields; no string of characters equals it.
undefined == <<"undefined">>

Digits == <<"0", "1", "2", "3", "4", "5", "6", "7", "8", "9">>

IsDigit(c) == \E i \in 1..Len(Digits) : Digits[i] = c

DigitValue(c) == (CHOOSE i \in 1..Len(Digits) : Digits[i] = c) - 1

RECURSIVE StripLeft(_)
StripLeft(s) ==
    IF s # <<>> /\ Head(s) = " " THEN StripLeft(Tail(s)) ELSE s

RECURSIVE DigitPrefix(_, _)
DigitPrefix(s, acc) ==
    IF s = <<>> \/ ~IsDigit(Head(s)) THEN acc
    ELSE DigitPrefix(Tail(s), 10 * acc + DigitValue(Head(s)))

\* parseInt(s): leading blanks, an optional sign, the longest run of decimal
\* digits; NaN when there is no digit there.  parseInt(undefined) is NaN.
parseInt(s) ==
    IF s = undefined THEN NaN
    ELSE LET t == StripLeft(s)
             signed == t # <<>> /\ Head(t) \in {"+", "-"}
             u == IF signed THEN Tail(t) ELSE t
         IN  IF u = <<>> \/ ~IsDigit(Head(u)) THEN NaN
             ELSE IF signed /\ Head(t) = "-" THEN Num(0 - DigitPrefix(u, 0))
             ELSE Num(DigitPrefix(u, 0))

\* s.split("|"): the pieces between separators; one (empty) piece for "".
RECURSIVE split(_)
split(s) ==
    IF \A i \in 1..Len(s) : s[i] # "|" THEN <<s>>
    ELSE LET i == CHOOSE j \in 1..Len(s) :
                     s[j] = "|" /\ \A k \in 1..(j - 1) : s[k] # "|"
         IN  <<SubSeq(s, 1, i - 1)>> \o split(SubSeq(s, i + 1, Len(s)))

\* new Array(n).fill(s).join("|"), for n >= 1
RECURSIVE fillJoin(_, _)
fillJoin(n, s) == IF n <= 1 THEN s ELSE s \o <<"|">> \o fillJoin(n - 1, s)

\* s.includes(sub)
includes(s, sub) ==
    \E i \in 1..(Len(s) - Len(sub) + 1) : SubSeq(s, i, i + Len(sub) - 1) = sub

\* s.startsWith(prefix)
startsWith(s, prefix) ==
    Len(s) >= Len(prefix) /\ SubSeq(s, 1, Len(prefix)) = prefix

Through == <<"t", "h", "r", "o", "u", "g", "h">>

Merge == <<"m", "e", "r", "g", "e">>

InterstatePrefix == <<"I", " ">>

(***************************************************************************)
(* Tag lookups.                                                             *)
(***************************************************************************)
Has(tags, key) == key \in DOMAIN tags

\* tags[key] for a key whose value is a character sequence
Get(tags, key) == IF Has(tags, key) THEN tags[key] ELSE undefined

\* truthiness of a character-sequence value: undefined and "" are falsy
Truthy(v) == v # undefined /\ v # <<>>

\* tags[key] === value, for a key whose value is a TLA+ string
Is(tags, key, value) == Has(tags, key) /\ tags[key] = value

\* truthiness of tags[key], for a key whose value is a TLA+ string
Set(tags, key) == Has(tags, key) /\ tags[key] # ""

(***************************************************************************)
(* getTagsForProgression and getLaneCount.  A way is a record               *)
(* [id, tags, first, last, length]: first and last are node_refs(0) and     *)
(* node_refs(nodes_count - 1), length is turf.length of its geometry.       *)
(***************************************************************************)
\* The value of an argument the caller leaves out: undefined, which is falsy.
omitted == NaN

\* new Array(n) with n < 0 throws a RangeError; no string of characters equals it.
RangeError == <<"RangeError">>

directionOf(progression) == IF progression > 0 THEN "forward" ELSE "backward"

\* getTagsForProgression without the per-lane expansion of a directional or
\* plain value
getTagsForProgressionUnexpanded(tag, way, progression, laneCount) ==
    LET direction == directionOf(progression)
        wayTags == way.tags
        perLaneDirected == Get(wayTags, tag \o ":lanes:" \o direction)
        perLane == IF Truthy(perLaneDirected) THEN perLaneDirected
                   ELSE Get(wayTags, tag \o ":lanes")
        directed == Get(wayTags, tag \o ":" \o direction)
    IN  IF Truthy(perLane) THEN perLane
        ELSE IF Truthy(directed) THEN directed ELSE Get(wayTags, tag)

getTagsForProgression(tag, way, progression, laneCount) ==
    LET direction == directionOf(progression)
        wayTags == way.tags
        perLaneDirected == Get(wayTags, tag \o ":lanes:" \o direction)
        perLane == IF Truthy(perLaneDirected) THEN perLaneDirected
                   ELSE Get(wayTags, tag \o ":lanes")
        directed == Get(wayTags, tag \o ":" \o direction)
        tags == IF Truthy(directed) THEN directed ELSE Get(wayTags, tag)
    IN  IF Truthy(perLane) THEN perLane
        ELSE IF Truthy(tags) /\ ~Falsy(laneCount)
             THEN IF laneCount.val < 0 THEN RangeError
                  ELSE fillJoin(laneCount.val, tags)
             ELSE tags

\* getLaneCount(way, progression) with progression 1 or -1
getDirectionalLaneCount(way, progression) ==
    LET tags == way.tags
        direction == directionOf(progression)
        parsed == parseInt(Get(tags, "lanes:" \o direction))
        turnLanes == getTagsForProgression("turn", way, progression, omitted)
        turnLaneCount == Num(Len(split(turnLanes)))
        laneCount == IF Truthy(turnLanes)
                     THEN MathMax(OrElse(parsed, turnLaneCount), turnLaneCount)
                     ELSE parsed
        total == parseInt(Get(tags, "lanes"))
        fallback == IF ~Set(tags, "oneway") \/ Is(tags, "oneway", "no")
                    THEN FloorHalf(total) ELSE total
    IN  OrElse(IF Falsy(laneCount) THEN fallback ELSE laneCount, Num(1))

\* getLaneCount whose undirected form always adds up the two directions
getLaneCountSummed(way, progression) ==
    LET tags == way.tags
    IN  IF progression = 0
        THEN IF Is(tags, "highway", "service") THEN Num(1)
             ELSE Plus(IF ~Is(tags, "oneway", "-1")
                       THEN getDirectionalLaneCount(way, 1) ELSE Num(0),
                       IF ~Is(tags, "oneway", "yes")
                       THEN getDirectionalLaneCount(way, -1) ELSE Num(0))
        ELSE getDirectionalLaneCount(way, progression)

\* getLaneCount(way, progression); progression 0 stands for the omitted argument
getLaneCount(way, progression) ==
    LET tags == way.tags
    IN  IF progression = 0
        THEN IF Truthy(Get(tags, "lanes")) THEN parseInt(tags["lanes"])
             ELSE IF Is(tags, "highway", "service") THEN Num(1)
             ELSE Plus(Plus(Num(0),
                            IF ~Is(tags, "oneway", "-1")
                            THEN getDirectionalLaneCount(way, 1) ELSE Num(0)),
                       IF ~Is(tags, "oneway", "yes")
                       THEN getDirectionalLaneCount(way, -1) ELSE Num(0))
        ELSE getDirectionalLaneCount(way, progression)

(***************************************************************************)
(* The predicates and counts of stream.on("data").                          *)
(***************************************************************************)
\* the special paths when the case for steps does not return
SpecialPathsWithoutSteps == {"corridor", "pedestrian", "footway", "cycleway"}

SpecialPaths == {"corridor", "pedestrian", "footway", "steps", "cycleway"}

PublicAccess == {"yes", "destination", "designated"}

OnewayCountedClasses == {"motorway", "trunk", "primary", "secondary", "tertiary"}

LinkClasses == {"motorway_link", "trunk_link", "primary_link", "secondary_link",
                "tertiary_link"}

\* isPublic without the exclusion of service roads
isPublicWithService(tags) ==
    ~Set(tags, "access") \/ tags["access"] \in PublicAccess

isPublic(tags) ==
    ~Is(tags, "highway", "service")
    /\ (~Set(tags, "access") \/ tags["access"] \in PublicAccess)

isInterstate(tags) ==
    /\ Truthy(Get(tags, "ref"))
    /\ startsWith(tags["ref"], InterstatePrefix)
    /\ ~Is(tags, "highway", "motorway_link")

isFreeway(tags) == Is(tags, "highway", "motorway")

isOneWay(tags) == Is(tags, "oneway", "yes") \/ Is(tags, "oneway", "-1")

countsAsOneway(tags) == isOneWay(tags) /\ tags["highway"] \in OnewayCountedClasses

\* the one-way public test without the test for public
countsAsOnewayPublicUnnested(tags) == countsAsOneway(tags)

\* the freeway test as an if of its own rather than an else-if
countsAsFreewayAlso(tags) == isFreeway(tags)

\* the nested test of lines 267-271: one-way, of a counted class, and public
countsAsOnewayPublic(tags) == countsAsOneway(tags) /\ isPublic(tags)

\* the else-if of lines 255-259 and 297-301: a freeway that is no interstate
countsAsFreeway(tags) == ~isInterstate(tags) /\ isFreeway(tags)

\* tags.highway.includes("_link"), over the classes the filter lets through
includesLink(highway) == highway \in LinkClasses

isTurnChannel(tags) ==
    /\ \/ Truthy(Get(tags, "turn"))
       \/ Get(tags, "lanes") = <<"1">>
       \/ ~Truthy(Get(tags, "lanes"))
    /\ isOneWay(tags)
    /\ (Is(tags, "highway", "service") \/ includesLink(tags["highway"]))

\* turnLanes.split("|").filter(lane => lane && lane !== "through"
\*                                     && !lane.includes("merge")).length
qualifyingTurnLanes(turnLanes) ==
    IF ~Truthy(turnLanes) THEN 0
    ELSE LET lanes == split(turnLanes)
         IN  Cardinality({i \in 1..Len(lanes) :
                 lanes[i] # <<>> /\ lanes[i] # Through /\ ~includes(lanes[i], Merge)})

\* the turn lanes of one direction, resolved with that direction's lane count
directionTurnLanes(way, progression) ==
    getTagsForProgression("turn", way, progression, getLaneCount(way, progression))

\* how many times length is added to bikeLaneLength (value "lane") or to
\* sharrowLength (value "shared_lane")
cyclewayIncrements(tags, value) ==
    IF isOneWay(tags)
    THEN IF Is(tags, "cycleway", value) \/ Is(tags, "cycleway:left", value)
            \/ Is(tags, "cycleway:right", value) THEN 1 ELSE 0
    ELSE (IF Is(tags, "cycleway", value) \/ Is(tags, "cycleway:left", value)
          THEN 1 ELSE 0)
         + (IF Is(tags, "cycleway", value) \/ Is(tags, "cycleway:right", value)
            THEN 1 ELSE 0)

SpeedLimitKeys == {"maxspeed", "maxspeed:advisory", "maxspeed:forward",
                   "maxspeed:advisory:forward", "maxspeed:backward",
                   "maxspeed:advisory:backward"}

hasSpeedLimit(tags) == \E key \in SpeedLimitKeys : Set(tags, key)

\* the bridge test without the comparison with "no"
isBridgeEvenIfNo(tags) == Set(tags, "bridge")

isBridge(tags) == Set(tags, "bridge") /\ tags["bridge"] # "no"

isTolled(tags) == Set(tags, "toll") /\ tags["toll"] # "no"

\* addTo that sets map[key] = 0 whether or not key is in map
addToOverwriting(map, key, length) ==
    IF key \in DOMAIN map THEN [map EXCEPT ![key] = 0 + length]
    ELSE map @@ (key :> (0 + length))

\* map[key] += length, after map[key] = 0 when key is not in map
addTo(map, key, length) ==
    IF key \in DOMAIN map THEN [map EXCEPT ![key] = @ + length]
    ELSE map @@ (key :> (0 + length))

\* startsNewBridge looking at the first node only
startsNewBridgeFirstNodeOnly(index, way) == way.first \notin DOMAIN index

startsNewBridge(index, way) ==
    way.first \notin DOMAIN index /\ way.last \notin DOMAIN index

recordBridge(index, way) ==
    LET withFirst == IF way.first \in DOMAIN index
                     THEN [index EXCEPT ![way.first] = way.id]
                     ELSE index @@ (way.first :> way.id)
    IN  IF way.last \in DOMAIN withFirst
        THEN [withFirst EXCEPT ![way.last] = way.id]
        ELSE withFirst @@ (way.last :> way.id)

(***************************************************************************)
(* The initial state: every total as declared (lines 89-93, 150-185, 214).  *)
(***************************************************************************)
emptyMap == [key \in {} |-> 0]

noFeature == [kind |-> "none"]

LedgerInit ==
    /\ buildingCount = 0 /\ buildingCoverArea = 0
    /\ farmCount = 0 /\ farmlandArea = 0
    /\ hallwayLength = 0 /\ footPathLength = 0 /\ stairLength = 0
    /\ sidewalkLength = 0 /\ bikePathLength = 0 /\ crossingLength = 0
    /\ roadCount = 0 /\ centerlineLength = 0 /\ onewayCenterlineLength = 0
    /\ laneLength = Num(0)
    /\ publicCenterlineLength = 0 /\ onewayPublicCenterlineLength = 0
    /\ publicLaneLength = Num(0)
    /\ interstateCenterlineLength = 0 /\ interstateLaneLength = Num(0)
    /\ freewayCenterlineLength = 0 /\ freewayLaneLength = Num(0)
    /\ alleyLength = 0 /\ drivewayLength = 0
    /\ parkingAisleLength = 0 /\ driveThroughLength = 0
    /\ bikeLaneLength = 0 /\ sharrowLength = 0 /\ turnLaneLength = 0
    /\ maximumSpeedLimitLength = 0
    /\ lengthsByRoadClass = emptyMap /\ speedLimitLengthsByRoadClass = emptyMap
    /\ numBridges = 0 /\ bridgeLength = 0 /\ tolledLength = 0
    /\ bridgeWayIDsByNodeID = emptyMap

(***************************************************************************)
(* handler.on("area"): area is [kind, tags, degenerate, squareMeters];      *)
(* area.geojson() throws exactly when the area is degenerate, and           *)
(* squareMeters is turf.area of the geometry it returns otherwise.          *)
(***************************************************************************)
isBuilding(tags) == Set(tags, "building") /\ tags["building"] # "no"

isFarm(tags) == Is(tags, "landuse", "farm") \/ Is(tags, "landuse", "farmland")

\* a building counted before its geometry is resolved
countsBuildingUnresolved(area) == isBuilding(area.tags)

\* whether the handler reaches the statements that add a building
countsBuilding(area) == isBuilding(area.tags) /\ ~area.degenerate

\* whether the handler reaches the statements that add a farm: the building
\* block has not returned, and geojson() has not thrown in the farm block
countsFarm(area) ==
    /\ ~(isBuilding(area.tags) /\ area.degenerate)
    /\ isFarm(area.tags)
    /\ ~area.degenerate

onArea(area) ==
    /\ pc = "areas"
    /\ feature' = area
    /\ delivered' = delivered + 1
    /\ buildingCoverArea' = IF countsBuilding(area)
                            THEN buildingCoverArea + area.squareMeters
                            ELSE buildingCoverArea
    /\ buildingCount' = IF countsBuilding(area) THEN buildingCount + 1
                        ELSE buildingCount
    /\ farmlandArea' = IF countsFarm(area) THEN farmlandArea + area.squareMeters
                       ELSE farmlandArea
    /\ farmCount' = IF countsFarm(area) THEN farmCount + 1 ELSE farmCount
    /\ UNCHANGED <<pc, fed, result, pathLedger, roadLedger>>

\* osmium.apply returns and the road pass opens its stream (lines 147-214)
openRoadStream ==
    /\ pc = "areas"
    /\ pc' = "roads"
    /\ feature' = noFeature
    /\ delivered' = 0
    /\ UNCHANGED <<fed, result, areaLedger, pathLedger, roadLedger>>

(***************************************************************************)
(* stream.on("data") of the road pass.                                      *)
(***************************************************************************)
isFootClass(tags) == Is(tags, "highway", "pedestrian") \/ Is(tags, "highway", "footway")

addsToCrossing(tags) ==
    \/ isFootClass(tags) /\ Is(tags, "footway", "crossing")
    \/ /\ Is(tags, "highway", "cycleway")
       /\ (Is(tags, "cycleway", "crossing") \/ Is(tags, "footway", "crossing"))

addsToSidewalk(tags) == isFootClass(tags) /\ Is(tags, "footway", "sidewalk")

\* case "sidewalk" has no return: control falls out of the inner switch
addsToFootPath(tags) == isFootClass(tags) /\ ~Is(tags, "footway", "crossing")

plusIf(total, condition, amount) == IF condition THEN total + amount ELSE total

PlusIf(total, condition, amount) == IF condition THEN Plus(total, amount) ELSE total

onData(way) ==
    LET tags == way.tags
        length == way.length
        general == tags["highway"] \notin SpecialPaths
        public == general /\ isPublic(tags)
        interstate == general /\ isInterstate(tags)
        freeway == general /\ countsAsFreeway(tags)
        oneway == general /\ countsAsOneway(tags)
        service == general /\ Is(tags, "highway", "service")
        wayLaneLength == Times(Num(length), getLaneCount(way, 0))
        turnCounted == general /\ ~isTurnChannel(tags)
        forwardTurn == IF turnCounted /\ ~Is(tags, "oneway", "-1")
                       THEN directionTurnLanes(way, 1) ELSE undefined
        threwForward == forwardTurn = RangeError
        backwardTurn == IF turnCounted /\ ~threwForward /\ ~Is(tags, "oneway", "yes")
                        THEN directionTurnLanes(way, -1) ELSE undefined
        threwBackward == backwardTurn = RangeError
        forwardCount == IF threwForward THEN 0 ELSE qualifyingTurnLanes(forwardTurn)
        backwardCount == IF threwBackward THEN 0 ELSE qualifyingTurnLanes(backwardTurn)
        \* the statements after the turn lane block run
        rest == general /\ ~threwForward /\ ~threwBackward
        speedLimited == rest /\ hasSpeedLimit(tags)
        bridge == rest /\ isBridge(tags)
    IN  /\ pc = "roads"
        /\ pc' = IF threwForward \/ threwBackward THEN "failed" ELSE pc
        /\ feature' = way
        /\ delivered' = delivered + 1
        /\ fed' = IF bridge THEN Append(fed, way) ELSE fed
        /\ hallwayLength' = plusIf(hallwayLength, Is(tags, "highway", "corridor"), length)
        /\ crossingLength' = plusIf(crossingLength, addsToCrossing(tags), length)
        /\ sidewalkLength' = plusIf(sidewalkLength, addsToSidewalk(tags), length)
        /\ footPathLength' = plusIf(footPathLength, addsToFootPath(tags), length)
        /\ stairLength' = plusIf(stairLength, Is(tags, "highway", "steps"), length)
        /\ bikePathLength' = plusIf(bikePathLength, Is(tags, "highway", "cycleway"), length)
        /\ centerlineLength' = plusIf(centerlineLength, general, length)
        /\ publicCenterlineLength' = plusIf(publicCenterlineLength, public, length)
        /\ interstateCenterlineLength' =
               plusIf(interstateCenterlineLength, interstate, length)
        /\ freewayCenterlineLength' = plusIf(freewayCenterlineLength, freeway, length)
        /\ roadCount' = plusIf(roadCount, general, 1)
        /\ onewayCenterlineLength' = plusIf(onewayCenterlineLength, oneway, length)
        /\ onewayPublicCenterlineLength' =
               plusIf(onewayPublicCenterlineLength,
                      general /\ countsAsOnewayPublic(tags), length)
        /\ alleyLength' = plusIf(alleyLength, service /\ Is(tags, "service", "alley"), length)
        /\ drivewayLength' =
               plusIf(drivewayLength, service /\ Is(tags, "service", "driveway"), length)
        /\ parkingAisleLength' =
               plusIf(parkingAisleLength,
                      service /\ Is(tags, "service", "parking_aisle"), length)
        /\ driveThroughLength' =
               plusIf(driveThroughLength,
                      service /\ (Is(tags, "service", "drive-through")
                                  \/ Is(tags, "service", "drive_through")), length)
        /\ laneLength' = PlusIf(laneLength, general, wayLaneLength)
        /\ publicLaneLength' = PlusIf(publicLaneLength, public, wayLaneLength)
        /\ interstateLaneLength' = PlusIf(interstateLaneLength, interstate, wayLaneLength)
        /\ freewayLaneLength' = PlusIf(freewayLaneLength, freeway, wayLaneLength)
        /\ turnLaneLength' =
               plusIf(turnLaneLength, turnCounted,
                      forwardCount * length + backwardCount * length)
        /\ bikeLaneLength' =
               plusIf(bikeLaneLength, rest, cyclewayIncrements(tags, "lane") * length)
        /\ sharrowLength' =
               plusIf(sharrowLength, rest, cyclewayIncrements(tags, "shared_lane") * length)
        /\ lengthsByRoadClass' =
               IF rest THEN addTo(lengthsByRoadClass, tags["highway"], length)
               ELSE lengthsByRoadClass
        /\ maximumSpeedLimitLength' = plusIf(maximumSpeedLimitLength, speedLimited, length)
        /\ speedLimitLengthsByRoadClass' =
               IF speedLimited
               THEN addTo(speedLimitLengthsByRoadClass, tags["highway"], length)
               ELSE speedLimitLengthsByRoadClass
        /\ numBridges' =
               plusIf(numBridges, bridge /\ startsNewBridge(bridgeWayIDsByNodeID, way), 1)
        /\ bridgeWayIDsByNodeID' =
               IF bridge THEN recordBridge(bridgeWayIDsByNodeID, way)
               ELSE bridgeWayIDsByNodeID
        /\ bridgeLength' = plusIf(bridgeLength, bridge, length)
        /\ tolledLength' = plusIf(tolledLength, rest /\ isTolled(tags), length)
        /\ UNCHANGED <<result, areaLedger>>

\* stream.on("end"): the totals are printed and the reader is closed
onEnd ==
    /\ pc = "roads"
    /\ pc' = "ended"
    /\ UNCHANGED <<feature, delivered, fed, result, areaLedger, pathLedger, roadLedger>>

(***************************************************************************)
(* The features delivered to the handlers.  Every way carries a highway     *)
(* class that the stream's filter lets through (lines 189-211).             *)
(***************************************************************************)
MaxLanes == 4

\* String(n) for n >= 0
RECURSIVE numeral(_)
numeral(n) ==
    IF n < 10 THEN <<Digits[n + 1]>>
    ELSE numeral(n \div 10) \o <<Digits[(n % 10) + 1]>>

Left == <<"l", "e", "f", "t">>

Right == <<"r", "i", "g", "h", "t">>

LeftThrough == Left \o <<"|">> \o Through

MergeToLeft == Merge \o <<"_", "t", "o", "_">> \o Left

\* tag sets with and without the tag key, over the given values
optional(tagSets, key, values) ==
    tagSets \cup {tags @@ (key :> value) : tags \in tagSets, value \in values}

classes(highways) == {[highway |-> highway] : highway \in highways}

ways(tagSets, lengths) ==
    {[kind |-> "way", id |-> 1, tags |-> tags, first |-> 1, last |-> 2, length |-> length] :
        tags \in tagSets, length \in lengths}

LaneNumerals == {numeral(n) : n \in 0..MaxLanes}

\* values of lanes, lanes:forward and lanes:backward that are not plain numerals
OddLaneValues == {<<>>, <<"-", "2">>, <<"m", "a", "n", "y">>, <<"2", ";", "3">>,
                  <<" ", "2">>, <<"1", "2">>}

\* the combinations of turn tags a way may carry
TurnTaggings ==
    {emptyMap,
     "turn" :> Left,
     "turn" :> <<>>,
     "turn:forward" :> LeftThrough,
     "turn:backward" :> Right,
     ("turn:forward" :> Left) @@ ("turn:backward" :> Through),
     "turn:lanes" :> (LeftThrough \o <<"|">> \o Right),
     "turn:lanes:forward" :> (Left \o <<"|", "|">> \o MergeToLeft),
     ("turn:lanes:backward" :> LeftThrough) @@ ("turn" :> Right)}

LaneTagSets ==
    LET base == optional(classes({"primary", "service", "motorway_link"}),
                         "oneway", {"yes", "no", "-1"})
        total == optional(base, "lanes", LaneNumerals \cup OddLaneValues)
        directed == optional(optional(total, "lanes:forward",
                                      {numeral(MaxLanes), <<"0">>, <<"-", "2">>, <<"x">>}),
                             "lanes:backward", {numeral(1), <<"x">>})
    IN  {tags @@ turns : tags \in directed, turns \in TurnTaggings}

LaneWays == ways(LaneTagSets, {1})

(***************************************************************************)
(* The lane resolver on its own: one way, and one call of each form.        *)
(***************************************************************************)
noResult == [of |-> "none"]

callGetLaneCount ==
    /\ pc = "call"
    /\ pc' = "returned"
    /\ result' = [of |-> "getLaneCount",
                  undirected |-> getLaneCount(feature, 0),
                  forward |-> getLaneCount(feature, 1),
                  backward |-> getLaneCount(feature, -1)]
    /\ UNCHANGED <<feature, delivered, fed, areaLedger, pathLedger, roadLedger>>

InitLanes ==
    /\ LedgerInit
    /\ pc = "call"
    /\ feature \in LaneWays
    /\ delivered = 0
    /\ fed = <<>>
    /\ result = noResult

NextLanes == callGetLaneCount

SpecLanes == InitLanes /\ [][NextLanes]_vars

\* the way with one tag removed
without(way, key) ==
    [way EXCEPT !.tags = [k \in DOMAIN way.tags \ {key} |-> way.tags[k]]]

atLeastOne(count) == ~count.nan /\ count.val >= 1

\* C2: getLaneCount returns an integer >= 1 for every way with a recognized
\* highway tag, whatever its lanes, lanes:forward, lanes:backward, turn* and
\* oneway tags, in the undirected form and in both directional forms.
C2_LaneCountAtLeastOne ==
    result.of = "getLaneCount" =>
        /\ atLeastOne(result.undirected)
        /\ atLeastOne(result.forward)
        /\ atLeastOne(result.backward)

LaneKeys == {"lanes", "lanes:forward", "lanes:backward"}

\* the tag is present and parseInt finds no number in its value
nonNumeric(way, key) == Has(way.tags, key) /\ parseInt(way.tags[key]).nan

\* C3: a non-numeric lanes, lanes:forward or lanes:backward is treated as if
\* the tag were absent: every form of getLaneCount returns what it returns for
\* the same way without the tag, and the way's lane length (length times the
\* undirected count) is the same finite number as without the tag.
C3_NonNumericLanesAsAbsent ==
    result.of = "getLaneCount" =>
        \A key \in LaneKeys :
            nonNumeric(feature, key) =>
                /\ result.undirected = getLaneCount(without(feature, key), 0)
                /\ result.forward = getLaneCount(without(feature, key), 1)
                /\ result.backward = getLaneCount(without(feature, key), -1)
                /\ ~Times(Num(feature.length), result.undirected).nan

(***************************************************************************)
(* The road pass over bridge ways: ways that differ in their end nodes and  *)
(* in their bridge tag.  A stream delivers a way at most once.              *)
(***************************************************************************)
MaxBridgeWays == 4

bridgeWay(id, highway, bridge, first, last) ==
    [kind |-> "way", id |-> id, tags |-> [highway |-> highway] @@ bridge,
     first |-> first, last |-> last, length |-> 1]

WayA == bridgeWay(101, "primary", "bridge" :> "yes", 1, 2)

WayB == bridgeWay(102, "primary", "bridge" :> "yes", 2, 3)

WayC == bridgeWay(103, "secondary", "bridge" :> "viaduct", 3, 4)

WayD == bridgeWay(104, "primary", "bridge" :> "yes", 5, 6)

BridgeWays ==
    {WayA, WayB, WayC, WayD,
     bridgeWay(105, "residential", "bridge" :> "yes", 4, 1),
     bridgeWay(106, "primary", "bridge" :> "no", 6, 7),
     bridgeWay(107, "primary", emptyMap, 2, 5),
     bridgeWay(108, "footway", "bridge" :> "yes", 7, 8)}

fedIds == [i \in 1..Len(fed) |-> fed[i].id]

InitRoads ==
    /\ LedgerInit
    /\ pc = "roads"
    /\ feature = noFeature
    /\ delivered = 0
    /\ fed = <<>>
    /\ result = noResult

deliverBridgeWay ==
    /\ delivered < MaxBridgeWays
    /\ \E way \in BridgeWays :
           /\ \A i \in 1..Len(fed) : fed[i].id # way.id
           /\ onData(way)

NextBridges == deliverBridgeWay \/ onEnd

SpecBridges == InitRoads /\ [][NextBridges]_vars

\* a step in which the bridge block of stream.on("data") has run
bridgeStep == pc = "roads" /\ Len(fed') = Len(fed) + 1

\* C1: from an empty endpoint index the bridge ways A(n1-n2), B(n2-n3),
\* C(n3-n4), fed in that order, leave numBridges = 1, and the isolated bridge
\* way D(n5-n6) fed after them makes it 2; a bridge way increments numBridges
\* exactly when neither its first nor its last node is a key of the index,
\* and after it both end nodes map to that way's id.
C1_BridgeChainsCountOnce ==
    [][/\ fedIds' = <<WayA.id, WayB.id, WayC.id>> => numBridges' = 1
       /\ fedIds' = <<WayA.id, WayB.id, WayC.id, WayD.id>> => numBridges' = 2
       /\ bridgeStep =>
            /\ numBridges' =
                   IF feature'.first \notin DOMAIN bridgeWayIDsByNodeID
                      /\ feature'.last \notin DOMAIN bridgeWayIDsByNodeID
                   THEN numBridges + 1 ELSE numBridges
            /\ bridgeWayIDsByNodeID'[feature'.first] = feature'.id
            /\ bridgeWayIDsByNodeID'[feature'.last] = feature'.id]_vars

\* A, B, C and then D have been fed, and D was counted as a second bridge
C1_Witness ==
    /\ fedIds = <<WayA.id, WayB.id, WayC.id, WayD.id>>
    /\ numBridges = 2
    /\ bridgeWayIDsByNodeID[5] = WayD.id

(***************************************************************************)
(* The road pass over ways that differ in their turn and lane tags.         *)
(***************************************************************************)
MaxTurnWays == 2

TurnWayTaggings ==
    {emptyMap,
     "turn:forward" :> LeftThrough,
     ("turn:forward" :> LeftThrough) @@ ("turn:backward" :> Right)}

TurnTagSets ==
    LET base == optional(classes({"primary"}), "oneway", {"no", "yes"})
        lanes == optional(base, "lanes:forward", {numeral(1), numeral(3)})
    IN  {tags @@ turns : tags \in lanes, turns \in TurnWayTaggings}
        \cup {[highway |-> "service", oneway |-> "yes"] @@ ("turn" :> Left),
              [highway |-> "primary"] @@ ("turn:lanes:forward" :> LeftThrough)}

TurnWays == ways(TurnTagSets, {1, 100})

deliverTurnWay ==
    /\ delivered < MaxTurnWays
    /\ \E way \in TurnWays : onData(way)

NextTurns == deliverTurnWay \/ onEnd

SpecTurns == InitRoads /\ [][NextTurns]_vars

TurnKeys == {"turn", "turn:forward", "turn:backward", "turn:lanes",
             "turn:lanes:forward", "turn:lanes:backward"}

\* a delivered way of class primary, two-way, whose only turn tag is
\* turn:forward=left|through
leftThroughForward(way) ==
    /\ way.kind = "way"
    /\ Is(way.tags, "highway", "primary")
    /\ (~Has(way.tags, "oneway") \/ Is(way.tags, "oneway", "no"))
    /\ DOMAIN way.tags \cap TurnKeys = {"turn:forward"}
    /\ way.tags["turn:forward"] = LeftThrough

dataStep == pc = "roads" /\ delivered' = delivered + 1

\* C4 as claimed: such a way of length L adds exactly 1 x L to turnLaneLength
\* ("left" counted once, "through" excluded, nothing from the backward
\* direction), so 100 when L = 100.
C4_OneTurnLaneOriginal ==
    [][dataStep /\ leftThroughForward(feature') =>
           turnLaneLength' = turnLaneLength + feature'.length]_vars

\* the forward lanes of a way whose turn:forward value has two entries: what
\* lanes:forward says when that is more than two, and two otherwise
forwardLanesOfTwoEntries(way) ==
    IF \E n \in 3..9 : Get(way.tags, "lanes:forward") = numeral(n)
    THEN CHOOSE n \in 3..9 : Get(way.tags, "lanes:forward") = numeral(n)
    ELSE 2

\* C4 as amended: the turn:forward value is repeated once for every forward
\* lane before its entries are counted, so the way adds (forward lanes) x L
\* to turnLaneLength, the backward direction adding nothing: 2 x L without a
\* larger lanes:forward, which is 200 when L = 100.
C4_TurnLanesPerForwardLane ==
    [][dataStep /\ leftThroughForward(feature') =>
           turnLaneLength' =
               turnLaneLength + forwardLanesOfTwoEntries(feature') * feature'.length]_vars

\* a way tagged turn:forward=left|through of length 100, with no lanes:forward,
\* was the first way delivered and added 200
C4_Witness ==
    /\ pc = "roads"
    /\ delivered = 1
    /\ leftThroughForward(feature)
    /\ ~Has(feature.tags, "lanes:forward")
    /\ feature.length = 100
    /\ turnLaneLength = 200

(***************************************************************************)
(* The road pass over ways that differ in class, direction and access.      *)
(***************************************************************************)
MaxRoadWays == 2

RoadTagSets ==
    optional(optional(classes({"primary", "residential", "service"}),
                      "oneway", {"yes", "-1"}),
             "access", {"private"})
    \cup {[highway |-> "primary", oneway |-> "yes", access |-> "designated"],
          [highway |-> "primary"] @@ ("lanes" :> <<"-", "2">>),
          [highway |-> "residential"] @@ ("lanes" :> <<"m", "a", "n", "y">>)}

RoadWays == ways(RoadTagSets, {1, 2})

deliverRoadWay ==
    /\ delivered < MaxRoadWays
    /\ \E way \in RoadWays : onData(way)

NextRoads == deliverRoadWay \/ onEnd

SpecRoads == InitRoads /\ [][NextRoads]_vars

\* C5: after any sequence of ways, onewayCenterlineLength <= centerlineLength
\* and onewayPublicCenterlineLength <= publicCenterlineLength, so each printed
\* centerline range, from total - oneway / 2 to total, has its lower end
\* between 0 and its upper end (both ends doubled here).
C5_OnewayWithinCenterline ==
    /\ onewayCenterlineLength <= centerlineLength
    /\ onewayPublicCenterlineLength <= publicCenterlineLength
    /\ 0 <= 2 * centerlineLength - onewayCenterlineLength
    /\ 2 * centerlineLength - onewayCenterlineLength <= 2 * centerlineLength
    /\ 0 <= 2 * publicCenterlineLength - onewayPublicCenterlineLength
    /\ 2 * publicCenterlineLength - onewayPublicCenterlineLength
           <= 2 * publicCenterlineLength

\* a private one-way primary road and a public two-way road have been counted
C5_Witness ==
    /\ onewayPublicCenterlineLength < onewayCenterlineLength
    /\ onewayCenterlineLength < publicCenterlineLength
    /\ publicCenterlineLength < centerlineLength
    /\ pc = "ended"

notDecreased(before, after) == ~after.nan /\ ~before.nan /\ before.val <= after.val

mapNotDecreased(before, after) ==
    \A key \in DOMAIN before : key \in DOMAIN after /\ before[key] <= after[key]

\* C7: processing one way never decreases any entry of the ledger: no length,
\* no lane length, no counter and no entry of a per-class map.
C7_LedgerNeverDecreases ==
    [][/\ hallwayLength <= hallwayLength' /\ footPathLength <= footPathLength'
       /\ stairLength <= stairLength' /\ sidewalkLength <= sidewalkLength'
       /\ bikePathLength <= bikePathLength' /\ crossingLength <= crossingLength'
       /\ roadCount <= roadCount' /\ centerlineLength <= centerlineLength'
       /\ onewayCenterlineLength <= onewayCenterlineLength'
       /\ publicCenterlineLength <= publicCenterlineLength'
       /\ onewayPublicCenterlineLength <= onewayPublicCenterlineLength'
       /\ interstateCenterlineLength <= interstateCenterlineLength'
       /\ freewayCenterlineLength <= freewayCenterlineLength'
       /\ alleyLength <= alleyLength' /\ drivewayLength <= drivewayLength'
       /\ parkingAisleLength <= parkingAisleLength'
       /\ driveThroughLength <= driveThroughLength'
       /\ bikeLaneLength <= bikeLaneLength' /\ sharrowLength <= sharrowLength'
       /\ turnLaneLength <= turnLaneLength'
       /\ maximumSpeedLimitLength <= maximumSpeedLimitLength'
       /\ numBridges <= numBridges' /\ bridgeLength <= bridgeLength'
       /\ tolledLength <= tolledLength'
       /\ mapNotDecreased(lengthsByRoadClass, lengthsByRoadClass')
       /\ mapNotDecreased(speedLimitLengthsByRoadClass, speedLimitLengthsByRoadClass')
       /\ notDecreased(laneLength, laneLength')
       /\ notDecreased(publicLaneLength, publicLaneLength')
       /\ notDecreased(interstateLaneLength, interstateLaneLength')
       /\ notDecreased(freewayLaneLength, freewayLaneLength')
       /\ buildingCount <= buildingCount' /\ buildingCoverArea <= buildingCoverArea'
       /\ farmCount <= farmCount' /\ farmlandArea <= farmlandArea']_vars

(***************************************************************************)
(* The road pass over motorways and their links, with and without an        *)
(* interstate ref.                                                          *)
(***************************************************************************)
MaxInterstateWays == 2

Interstate90 == InterstatePrefix \o <<"9", "0">>

InterstateTagSets ==
    optional(optional({tags @@ ("lanes" :> lanes) :
                           tags \in classes({"motorway", "motorway_link"}),
                           lanes \in {numeral(3), numeral(12)}},
                      "oneway", {"yes"}),
             "ref", {Interstate90})
    \cup {[highway |-> "motorway", oneway |-> "yes"] @@ ("ref" :> Interstate90),
          [highway |-> "motorway", oneway |-> "yes"] @@ ("ref" :> <<"I", "-", "9", "0">>),
          [highway |-> "trunk", oneway |-> "-1"] @@ ("ref" :> <<"U", "S", " ", "1">>)}

InterstateWays == ways(InterstateTagSets, {1, 2})

deliverInterstateWay ==
    /\ delivered < MaxInterstateWays
    /\ \E way \in InterstateWays : onData(way)

NextInterstates == deliverInterstateWay \/ onEnd

SpecInterstates == InitRoads /\ [][NextInterstates]_vars

\* a one-way motorway with lanes=n and a ref that starts with "I "
interstateMotorway(way, n) ==
    /\ way.kind = "way"
    /\ Is(way.tags, "highway", "motorway")
    /\ Is(way.tags, "oneway", "yes")
    /\ Get(way.tags, "lanes") = numeral(n)
    /\ Has(way.tags, "ref")
    /\ Len(way.tags["ref"]) >= 2
    /\ way.tags["ref"][1] = "I" /\ way.tags["ref"][2] = " "

entry(map, key) == IF key \in DOMAIN map THEN map[key] ELSE 0

\* C9: one way with highway=motorway, oneway=yes, lanes=n, a ref starting with
\* "I " and length L adds exactly L to centerlineLength,
\* interstateCenterlineLength, onewayCenterlineLength and
\* lengthsByRoadClass["motorway"], and exactly n x L to laneLength and
\* interstateLaneLength, and leaves freewayCenterlineLength and
\* freewayLaneLength unchanged.
C9_InterstateMotorway ==
    [][\A n \in 1..(3 * MaxLanes) :
          dataStep /\ interstateMotorway(feature', n) =>
              LET L == feature'.length
              IN  /\ centerlineLength' = centerlineLength + L
                  /\ interstateCenterlineLength' = interstateCenterlineLength + L
                  /\ onewayCenterlineLength' = onewayCenterlineLength + L
                  /\ entry(lengthsByRoadClass', "motorway")
                         = entry(lengthsByRoadClass, "motorway") + L
                  /\ laneLength' = Num(laneLength.val + n * L)
                  /\ interstateLaneLength' = Num(interstateLaneLength.val + n * L)
                  /\ freewayCenterlineLength' = freewayCenterlineLength
                  /\ freewayLaneLength' = freewayLaneLength]_vars

\* after a motorway without a ref, a three-lane interstate motorway of length 2
\* has been counted
C9_Witness ==
    /\ delivered = 2
    /\ interstateMotorway(feature, 3)
    /\ feature.length = 2
    /\ interstateCenterlineLength = 2
    /\ interstateLaneLength = Num(6)
    /\ freewayCenterlineLength > 0
    /\ centerlineLength = freewayCenterlineLength + 2

(***************************************************************************)
(* The road pass over service roads.                                        *)
(***************************************************************************)
MaxServiceWays == 2

ServiceTagSets ==
    optional(optional(classes({"service"}),
                      "service", {"alley", "driveway", "parking_aisle", "drive_through"}),
             "access", {"yes", "destination", "designated", "private"})
    \cup {[highway |-> "service", service |-> "drive-through"],
          [highway |-> "service", service |-> "driveway"] @@ ("lanes" :> numeral(2)),
          [highway |-> "residential"]}

ServiceWays == ways(ServiceTagSets, {1, 2})

deliverServiceWay ==
    /\ delivered < MaxServiceWays
    /\ \E way \in ServiceWays : onData(way)

NextServices == deliverServiceWay \/ onEnd

SpecServices == InitRoads /\ [][NextServices]_vars

serviceWay(way) == way.kind = "way" /\ Is(way.tags, "highway", "service")

driveway(way) ==
    serviceWay(way) /\ Is(way.tags, "service", "driveway") /\ ~Has(way.tags, "lanes")

\* C10: a way with highway=service, service=driveway, no lanes tag and length L
\* adds exactly L to drivewayLength, centerlineLength and laneLength and
\* leaves alleyLength, parkingAisleLength and driveThroughLength unchanged;
\* whatever its access tag, a highway=service way never changes
\* publicCenterlineLength, onewayPublicCenterlineLength or publicLaneLength.
C10_ServiceDriveway ==
    [][/\ dataStep /\ driveway(feature') =>
              /\ drivewayLength' = drivewayLength + feature'.length
              /\ centerlineLength' = centerlineLength + feature'.length
              /\ laneLength' = Num(laneLength.val + feature'.length)
              /\ UNCHANGED <<alleyLength, parkingAisleLength, driveThroughLength>>
       /\ dataStep /\ serviceWay(feature') =>
              UNCHANGED <<publicCenterlineLength, onewayPublicCenterlineLength,
                          publicLaneLength>>]_vars

\* after a residential road, a driveway of length 2 open to all has been counted
C10_Witness ==
    /\ delivered = 2
    /\ driveway(feature)
    /\ Is(feature.tags, "access", "yes")
    /\ feature.length = 2
    /\ drivewayLength = 2
    /\ publicCenterlineLength > 0
    /\ centerlineLength = publicCenterlineLength + 2
    /\ laneLength = Num(publicLaneLength.val + 2)

(***************************************************************************)
(* The road pass over the special path classes.                             *)
(***************************************************************************)
MaxPathWays == 2

PathTagSets ==
    optional(classes(SpecialPaths), "footway", {"crossing", "sidewalk"})
    \cup {[highway |-> "cycleway", cycleway |-> "crossing"],
          [highway |-> "footway", footway |-> "access_aisle"],
          [highway |-> "residential"]}

\* the tags of a one-way, two-lane, tolled bridge with a speed limit, a turn
\* lane and a bike lane
RoadTags ==
    [bridge |-> "yes", toll |-> "yes", maxspeed |-> "30", oneway |-> "yes",
     cycleway |-> "lane"] @@ ("lanes" :> numeral(2)) @@ ("turn:lanes" :> Left)

\* paths, and one road, that carry them
TaggedPathTagSets ==
    {[highway |-> highway] @@ RoadTags :
        highway \in {"corridor", "pedestrian", "footway", "steps", "cycleway", "residential"}}

PathWays == ways(PathTagSets, {1, 2}) \cup ways(TaggedPathTagSets, {1})

deliverPathWay ==
    /\ delivered < MaxPathWays
    /\ \E way \in PathWays : onData(way)

NextPaths == deliverPathWay \/ onEnd

SpecPaths == InitRoads /\ [][NextPaths]_vars

footClassWay(way) ==
    /\ way.kind = "way"
    /\ way.tags["highway"] \in {"pedestrian", "footway"}

\* the total printed as "total meters of footpaths" (line 403)
totalFootpaths ==
    hallwayLength + crossingLength + sidewalkLength + stairLength + footPathLength

\* C8: a way with highway=pedestrian or highway=footway of length L adds L to
\* exactly one of three totals: crossingLength when its footway tag is
\* "crossing", sidewalkLength when it is "sidewalk", footPathLength
\* otherwise; so the printed total of footpaths grows by L.
C8_FootwayCountedOnce ==
    [][dataStep /\ footClassWay(feature') =>
           LET L == feature'.length
               footway == IF Has(feature'.tags, "footway")
                          THEN feature'.tags["footway"] ELSE ""
           IN  /\ crossingLength' =
                      crossingLength + (IF footway = "crossing" THEN L ELSE 0)
               /\ sidewalkLength' =
                      sidewalkLength + (IF footway = "sidewalk" THEN L ELSE 0)
               /\ footPathLength' =
                      footPathLength
                      + (IF footway \notin {"crossing", "sidewalk"} THEN L ELSE 0)
               /\ totalFootpaths' = totalFootpaths + L]_vars

(***************************************************************************)
(* The area pass.                                                           *)
(***************************************************************************)
MaxAreas == 2

AreaTagSets ==
    optional(optional({emptyMap}, "building", {"yes", "no"}),
             "landuse", {"farm", "farmland", "forest"})

Areas ==
    {[kind |-> "area", tags |-> tags, degenerate |-> degenerate,
      squareMeters |-> squareMeters] :
        tags \in AreaTagSets, degenerate \in BOOLEAN, squareMeters \in {1, 2}}

InitAreas ==
    /\ LedgerInit
    /\ pc = "areas"
    /\ feature = noFeature
    /\ delivered = 0
    /\ fed = <<>>
    /\ result = noResult

deliverArea ==
    /\ delivered < MaxAreas
    /\ \E area \in Areas : onArea(area)

NextAreas == deliverArea \/ openRoadStream

SpecAreas == InitAreas /\ [][NextAreas]_vars

areaStep == pc = "areas" /\ delivered' = delivered + 1

\* area.geojson() is called for the area, and throws
geometryFails(area) ==
    /\ area.kind = "area"
    /\ area.degenerate
    /\ \/ Has(area.tags, "building") /\ area.tags["building"] \notin {"", "no"}
       \/ Has(area.tags, "landuse") /\ area.tags["landuse"] \in {"farm", "farmland"}

\* C6: when area.geojson() throws, the area handler leaves buildingCount,
\* buildingCoverArea, farmCount and farmlandArea unchanged whatever the
\* building and landuse tags, the pass goes on, and the feature after it is
\* classified as usual: a building adds its area and one to the count, a farm
\* adds its area and one to the count.
C6_DegenerateAreaSkipped ==
    [][/\ areaStep /\ geometryFails(feature') =>
              /\ UNCHANGED <<buildingCount, buildingCoverArea, farmCount, farmlandArea>>
              /\ pc' = "areas"
       /\ areaStep /\ geometryFails(feature) /\ ~feature'.degenerate =>
              LET tags == feature'.tags
                  building == Has(tags, "building") /\ tags["building"] \notin {"", "no"}
                  farm == Has(tags, "landuse") /\ tags["landuse"] \in {"farm", "farmland"}
                  area == feature'.squareMeters
              IN  /\ buildingCount' = buildingCount + (IF building THEN 1 ELSE 0)
                  /\ buildingCoverArea' = buildingCoverArea + (IF building THEN area ELSE 0)
                  /\ farmCount' = farmCount + (IF farm THEN 1 ELSE 0)
                  /\ farmlandArea' = farmlandArea + (IF farm THEN area ELSE 0)]_vars

\* after a building and a farm were counted, a degenerate building on farmland
\* was delivered and skipped
C6_Witness ==
    /\ pc = "areas"
    /\ delivered = 2
    /\ geometryFails(feature)
    /\ Is(feature.tags, "building", "yes")
    /\ Is(feature.tags, "landuse", "farm")
    /\ buildingCount = 1 /\ farmCount = 1
    /\ buildingCoverArea = 2 /\ farmlandArea = 2

(***************************************************************************)
(* Lane counts of two-way ways without directional tags.                    *)
(***************************************************************************)
\* a two-way way that carries none of the given keys
twoWayWithout(way, keys) ==
    /\ way.kind = "way"
    /\ (~Has(way.tags, "oneway") \/ Is(way.tags, "oneway", "no"))
    /\ DOMAIN way.tags \cap keys = {}

\* C11: for a two-way way (oneway absent or "no") with lanes=n and no
\* lanes:forward, lanes:backward or turn tag, getLaneCount(way) is n and each
\* getLaneCount(way, direction) is floor(n / 2), or 1 when that is 0; a way of
\* a class other than service with no lanes, turn or oneway tag has 1 lane in
\* each direction and 2 in all.
C11_TwoWayLaneCounts ==
    result.of = "getLaneCount" =>
        /\ \A n \in 0..(3 * MaxLanes) :
               /\ twoWayWithout(feature, TurnKeys \cup {"lanes:forward", "lanes:backward"})
               /\ Has(feature.tags, "lanes")
               /\ feature.tags["lanes"] = numeral(n)
               => /\ result.undirected = Num(n)
                  /\ result.forward = Num(IF n \div 2 = 0 THEN 1 ELSE n \div 2)
                  /\ result.backward = Num(IF n \div 2 = 0 THEN 1 ELSE n \div 2)
        /\ /\ twoWayWithout(feature, TurnKeys \cup LaneKeys \cup {"oneway"})
           /\ feature.tags["highway"] # "service"
           => /\ result.forward = Num(1)
              /\ result.backward = Num(1)
              /\ result.undirected = Num(2)

\* getLaneCount has returned 3, and 1 for each direction, for a two-way primary
\* road with lanes=3 and no other lane or turn tag
C11_Witness ==
    /\ result.of = "getLaneCount"
    /\ feature.tags = [highway |-> "primary", oneway |-> "no"] @@ ("lanes" :> numeral(3))
    /\ result.undirected = Num(3)
    /\ result.forward = Num(1)
    /\ result.backward = Num(1)

(***************************************************************************)
(* The tag accessor on its own: one way, and one call of                    *)
(* getTagsForProgression("turn", way, progression, laneCount).              *)
(***************************************************************************)
\* the value a way may give each of the six turn keys, besides the empty one
TurnValues ==
    ("turn:lanes:forward" :> (Left \o <<"|">> \o Through)) @@
    ("turn:lanes:backward" :> (Right \o <<"|">> \o Right)) @@
    ("turn:lanes" :> (Left \o <<"|">> \o Right)) @@
    ("turn:forward" :> Left) @@
    ("turn:backward" :> Right) @@
    ("turn" :> Through)

\* every key absent, present with the empty value, or present with its value
RECURSIVE withTurnKeys(_, _)
withTurnKeys(tagSets, keys) ==
    IF keys = {} THEN tagSets
    ELSE LET key == CHOOSE k \in keys : TRUE
         IN  withTurnKeys(optional(tagSets, key, {<<>>, TurnValues[key]}), keys \ {key})

TagWays == ways(withTurnKeys(classes({"primary"}), DOMAIN TurnValues), {1})

\* the lane counts a caller passes: none, or a count of at least one
LaneCountArguments == {omitted} \cup {Num(n) : n \in 1..MaxLanes}

callGetTagsForProgression ==
    /\ pc = "call"
    /\ pc' = "returned"
    /\ \E progression \in {1, -1}, laneCount \in LaneCountArguments :
           result' = [of |-> "getTagsForProgression",
                      progression |-> progression,
                      laneCount |-> laneCount,
                      value |-> getTagsForProgression("turn", feature, progression, laneCount)]
    /\ UNCHANGED <<feature, delivered, fed, areaLedger, pathLedger, roadLedger>>

InitTags ==
    /\ LedgerInit
    /\ pc = "call"
    /\ feature \in TagWays
    /\ delivered = 0
    /\ fed = <<>>
    /\ result = noResult

NextTags == callGetTagsForProgression

SpecTags == InitTags /\ [][NextTags]_vars

\* value, count times over, with "|" between the copies
replicated(value, count) ==
    [i \in 1..(count * (Len(value) + 1) - 1) |->
        IF i % (Len(value) + 1) = 0 THEN "|" ELSE value[i % (Len(value) + 1)]]

\* what the precedence by presence of the keys gives
byPresence(tags, direction, laneCount) ==
    LET expanded(value) == IF laneCount = omitted THEN value
                           ELSE replicated(value, laneCount.val)
    IN  IF Has(tags, "turn:lanes:" \o direction) THEN tags["turn:lanes:" \o direction]
        ELSE IF Has(tags, "turn:lanes") THEN tags["turn:lanes"]
        ELSE IF Has(tags, "turn:" \o direction) THEN expanded(tags["turn:" \o direction])
        ELSE IF Has(tags, "turn") THEN expanded(tags["turn"])
        ELSE undefined

\* C12: getTagsForProgression(tag, way, progression, laneCount) returns the
\* value of the first key present among {tag}:lanes:{direction}, {tag}:lanes,
\* {tag}:{direction} and {tag}: unchanged for the two :lanes keys, repeated
\* laneCount times and joined by "|" for the other two when laneCount is
\* given; it returns absent when none of the four is present, and it changes
\* no state.
C12_PrecedenceByPresence ==
    [][pc = "call" /\ result'.of = "getTagsForProgression" =>
          /\ result'.value = byPresence(feature.tags, directionOf(result'.progression),
                                        result'.laneCount)
          /\ UNCHANGED <<feature, delivered, fed, areaLedger, pathLedger, roadLedger>>]_vars

(***************************************************************************)
(* The special path classes and the general road entries.                   *)
(***************************************************************************)
\* C13: a way whose highway value is corridor, pedestrian, footway, steps or
\* cycleway changes only the path totals; it leaves every general road entry
\* (the road count, the centerline, lane, turn-lane, bike-lane and sharrow
\* totals, both per-class maps, the speed-limit total, numBridges, the bridge
\* endpoint index, bridgeLength and tolledLength) unchanged, even when it
\* carries bridge, toll, maxspeed or lanes tags.
C13_SpecialPathsLeaveRoadEntries ==
    [][dataStep /\ feature'.tags["highway"] \in
                       {"corridor", "pedestrian", "footway", "steps", "cycleway"}
       => UNCHANGED <<areaLedger, roadLedger>>]_vars

\* after a residential road, a flight of steps tagged as a tolled two-lane
\* bridge with a speed limit has been added to stairLength and to no road entry
C13_Witness ==
    /\ pc = "roads"
    /\ delivered = 2
    /\ feature.tags["highway"] = "steps"
    /\ DOMAIN RoadTags \subseteq DOMAIN feature.tags
    /\ stairLength = feature.length
    /\ roadCount = 1
    /\ DOMAIN lengthsByRoadClass = {"residential"}
    /\ numBridges = 0
    /\ bridgeWayIDsByNodeID = emptyMap
    /\ tolledLength = 0
    /\ maximumSpeedLimitLength = 0

(***************************************************************************)
(* The road pass over roads with and without speed limits.                  *)
(***************************************************************************)
MaxSpeedWays == 2

SpeedTagSets ==
    optional(classes({"primary", "residential", "footway"}), "maxspeed", {"", "30"})
    \cup {[highway |-> highway] @@ (key :> "30") :
              highway \in {"primary", "residential", "footway"},
              key \in SpeedLimitKeys \ {"maxspeed"}}

SpeedWays == ways(SpeedTagSets, {1, 2})

deliverSpeedWay ==
    /\ delivered < MaxSpeedWays
    /\ \E way \in SpeedWays : onData(way)

NextSpeeds == deliverSpeedWay \/ onEnd

SpecSpeeds == InitRoads /\ [][NextSpeeds]_vars

\* the sum of all entries of a map
RECURSIVE sumOfEntries(_)
sumOfEntries(map) ==
    IF DOMAIN map = {} THEN 0
    ELSE LET key == CHOOSE k \in DOMAIN map : TRUE
         IN  map[key] + sumOfEntries([k \in DOMAIN map \ {key} |-> map[k]])

\* C14: after any sequence of ways in the road pass, the entries of
\* lengthsByRoadClass add up to centerlineLength, the entries of
\* speedLimitLengthsByRoadClass add up to maximumSpeedLimitLength, and for
\* every road class the entry of speedLimitLengthsByRoadClass is at most that
\* of lengthsByRoadClass (a class absent from a map counting as 0).
C14_ClassMapsAddUp ==
    pc \in {"roads", "ended"} =>
        /\ sumOfEntries(lengthsByRoadClass) = centerlineLength
        /\ sumOfEntries(speedLimitLengthsByRoadClass) = maximumSpeedLimitLength
        /\ \A class \in DOMAIN lengthsByRoadClass \cup DOMAIN speedLimitLengthsByRoadClass :
               entry(speedLimitLengthsByRoadClass, class) <= entry(lengthsByRoadClass, class)

\* two primary roads of lengths 1 and 2 have been counted, the first with a
\* speed limit
C14_Witness ==
    /\ pc = "roads"
    /\ delivered = 2
    /\ lengthsByRoadClass = ("primary" :> 3)
    /\ speedLimitLengthsByRoadClass = ("primary" :> 1)
    /\ centerlineLength = 3
    /\ maximumSpeedLimitLength = 1

(***************************************************************************)
(* The bridge count against the graph of the bridge ways.                   *)
(***************************************************************************)
\* the ways the bridge block has run for
fedWays == {fed[i] : i \in 1..Len(fed)}

\* the nodes joined to a node of the set by a chain of the ways
RECURSIVE connected(_, _)
connected(nodes, bridges) ==
    LET more == nodes \cup {way.last : way \in {w \in bridges : w.first \in nodes}}
                      \cup {way.first : way \in {w \in bridges : w.last \in nodes}}
    IN  IF more = nodes THEN nodes ELSE connected(more, bridges)

\* the number of connected components among the nodes, joined by the ways
RECURSIVE components(_, _)
components(nodes, bridges) ==
    IF nodes = {} THEN 0
    ELSE LET node == CHOOSE n \in nodes : TRUE
         IN  1 + components(nodes \ connected({node}, bridges), bridges)

\* the components of the graph with an edge from the first node to the last
\* node of each way the bridge block has run for
bridgeComponents ==
    components({way.first : way \in fedWays} \cup {way.last : way \in fedWays}, fedWays)

\* C15: after any sequence of bridge ways, in any order, numBridges is at
\* least the number of connected components of the graph whose edges join
\* each bridge way's first node to its last node, and at most the number of
\* bridge ways processed; a way without a bridge tag, or with bridge=no,
\* never changes numBridges or the endpoint index.
\* The two bounds are stated of the state each step starts from: the road
\* pass takes a step, the end of the stream at the least, from every state.
C15_BridgeCountBounds ==
    [][/\ bridgeComponents <= numBridges
       /\ numBridges <= Len(fed)
       /\ dataStep /\ (~Has(feature'.tags, "bridge") \/ feature'.tags["bridge"] = "no")
          => UNCHANGED <<numBridges, bridgeWayIDsByNodeID>>]_vars

\* A(n1-n2), C(n3-n4) and then B(n2-n3) have been counted as two bridges though
\* they form one chain, and the way with bridge=no fed after them changed nothing
C15_Witness ==
    /\ pc = "roads"
    /\ delivered = 4
    /\ fedIds = <<WayA.id, WayC.id, WayB.id>>
    /\ Is(feature.tags, "bridge", "no")
    /\ bridgeComponents = 1
    /\ numBridges = 2
    /\ DOMAIN bridgeWayIDsByNodeID = {1, 2, 3, 4}

====
